---------------------------- MODULE Spec2Model ----------------------------
(***************************************************************************)
(* Object-state factory of OmniGibson (omnigibson/object_states/factory.py)*)
(* as a state machine: the module-level tables, the dependency graph of    *)
(* the catalog, the topological update order, the ability lookup and the   *)
(* texture-change priority.                                                *)
(*                                                                         *)
(* State kinds are Python classes; the model names a class by its          *)
(* __name__.  What each class declares in get_dependencies() and           *)
(* get_optional_dependencies() is fixed by the class bodies, which factory *)
(* only calls: the model draws those declarations from bounded sets.       *)
(***************************************************************************)
EXTENDS Integers, Sequences, FiniteSets, TLC

\* ------------------------------------------------------------------ bounds
\* Number of state classes that may declare dependencies / be listed in a
\* bounded catalog.
MaxKinds == 3
\* Total number of dependency declarations over all classes.
MaxDeps == 2
\* Calls of get_states_by_dependency_order() within one process.
MaxCalls == 2
\* Entries of the list literal a bounded catalog is built from.
MaxEntries == 4
\* Abilities in the mapping an object is prepared with.
MaxAbilities == 2

\* --------------------------------------------------------- module tables
\* ROOM_STATES comes from `from omnigibson.object_states import *`.
ROOM_STATES == <<"IsInBathroom", "IsInBedroom", "IsInKitchen">>

\* The list without the room states appended to it.
AllStatesListNoRoomStates ==
    << "AABB", "Burnt", "CleaningTool", "ContactBodies", "Cooked", "Dusty",
       "Heated", "Attached", "Frozen", "HeatSourceOrSink",
       "HorizontalAdjacency", "InFOVOfRobot", "InHandOfRobot",
       "InReachOfRobot", "InSameRoomAsRobot", "Inside", "InsideRoomTypes",
       "MaxTemperature", "NextTo", "ObjectsInFOVOfRobot", "OnFloor", "OnTop",
       "Open", "Pose", "Sliced", "Slicer", "Soaked", "Stained", "Temperature",
       "ToggledOn", "Touching", "Under", "VerticalAdjacency", "WaterSource",
       "WaterSink", "Filled" >>

AllStatesList ==
    << "AABB", "Burnt", "CleaningTool", "ContactBodies", "Cooked", "Dusty",
       "Heated", "Attached", "Frozen", "HeatSourceOrSink",
       "HorizontalAdjacency", "InFOVOfRobot", "InHandOfRobot",
       "InReachOfRobot", "InSameRoomAsRobot", "Inside", "InsideRoomTypes",
       "MaxTemperature", "NextTo", "ObjectsInFOVOfRobot", "OnFloor", "OnTop",
       "Open", "Pose", "Sliced", "Slicer", "Soaked", "Stained", "Temperature",
       "ToggledOn", "Touching", "Under", "VerticalAdjacency", "WaterSource",
       "WaterSink", "Filled" >> \o ROOM_STATES

Range(s) == {s[i] : i \in DOMAIN s}

\* frozenset(list): the members of the list, duplicates merged.
FrozenSet(list) == Range(list)

\* _ALL_STATES as the source writes it.
ALL_STATES == FrozenSet(AllStatesList)

\* _ABILITY_TO_STATE_MAPPING as the source writes it.
ABILITY_TO_STATE_MAPPING ==
    [a \in {"attachable", "burnable", "cleaningTool", "coldSource", "cookable",
             "dustyable", "freezable", "heatable", "heatSource", "openable", "robot",
             "sliceable", "slicer", "soakable", "stainable", "toggleable",
             "waterSource", "waterSink", "fillable"} |->
        CASE a = "attachable" -> <<"Attached">>
          [] a = "burnable" -> <<"Burnt">>
          [] a = "cleaningTool" -> <<"CleaningTool">>
          [] a = "coldSource" -> <<"HeatSourceOrSink">>
          [] a = "cookable" -> <<"Cooked">>
          [] a = "dustyable" -> <<"Dusty">>
          [] a = "freezable" -> <<"Frozen">>
          [] a = "heatable" -> <<"Heated">>
          [] a = "heatSource" -> <<"HeatSourceOrSink">>
          [] a = "openable" -> <<"Open">>
          [] a = "robot" -> ROOM_STATES \o <<"ObjectsInFOVOfRobot">>
          [] a = "sliceable" -> <<"Sliced">>
          [] a = "slicer" -> <<"Slicer">>
          [] a = "soakable" -> <<"Soaked">>
          [] a = "stainable" -> <<"Stained">>
          [] a = "toggleable" -> <<"ToggledOn">>
          [] a = "waterSource" -> <<"WaterSource">>
          [] a = "waterSink" -> <<"WaterSink">>
          [] a = "fillable" -> <<"Filled">>]

DEFAULT_STATE_SET ==
    FrozenSet(<<"InFOVOfRobot", "InHandOfRobot", "InReachOfRobot", "InSameRoomAsRobot",
                "Inside", "NextTo", "OnFloor", "OnTop", "Touching", "Under">>)

FIRE_STATE_SET == FrozenSet(<<"HeatSourceOrSink">>)

STEAM_STATE_SET == FrozenSet(<<"Heated">>)

TEXTURE_CHANGE_STATE_SET == FrozenSet(<<"Burnt", "Cooked", "Frozen", "Soaked", "ToggledOn">>)

\* The table with Burnt given the rank of Soaked.
TEXTURE_CHANGE_PRIORITY_BurntAsSoaked ==
    [k \in {"Frozen", "Burnt", "Cooked", "Soaked", "ToggledOn"} |->
        CASE k = "Frozen" -> 4
          [] k = "Burnt" -> 1
          [] k = "Cooked" -> 2
          [] k = "Soaked" -> 1
          [] k = "ToggledOn" -> 0]

\* The table without its ToggledOn entry.
TEXTURE_CHANGE_PRIORITY_NoToggledOn ==
    [k \in {"Frozen", "Burnt", "Cooked", "Soaked"} |->
        CASE k = "Frozen" -> 4
          [] k = "Burnt" -> 3
          [] k = "Cooked" -> 2
          [] k = "Soaked" -> 1]

\* _TEXTURE_CHANGE_PRIORITY as the source writes it.
TEXTURE_CHANGE_PRIORITY ==
    [k \in {"Frozen", "Burnt", "Cooked", "Soaked", "ToggledOn"} |->
        CASE k = "Frozen" -> 4
          [] k = "Burnt" -> 3
          [] k = "Cooked" -> 2
          [] k = "Soaked" -> 1
          [] k = "ToggledOn" -> 0]

\* The ranks a bounded priority table may hold: 0..MaxRank.
MaxRank == 4

\* The classes of the bounded catalogs, a prefix of this list.
PoolSeq == <<"Cooked", "Temperature", "Pose", "HeatSourceOrSink", "Burnt", "Soaked">>
Pool == {PoolSeq[i] : i \in 1..MaxKinds}

DepTypes == {"required", "optional"}

\* The ability names and parameter payloads an object may be prepared with;
\* "flies" is no key of the ability table.
AbilityPool == {"cookable", "coldSource", "heatSource", "flies"}
EmptyParams == "{}"
ParamsPool == {EmptyParams, "{'p': 1}"}

\* Classes that are no BaseObjectState, and all a caller may pass as one.
NonStateClasses == {"dict"}
StateClassPool == Pool \cup NonStateClasses

VARIABLES
    phase,       \* "loading" while the module body runs, "frozen" after import
    allStates,   \* _ALL_STATES of this process
    listLen,     \* entries of its list literal consumed so far
    loadErr,     \* the exception the module body raised, or NoError
    required,    \* class -> what its get_dependencies() returns
    optional,    \* class -> what its get_optional_dependencies() returns
    hashOrder,   \* the order in which this process iterates _ALL_STATES
    order,       \* last result of get_states_by_dependency_order()
    orderErr,    \* the exception that call raised, or NoError
    orderCalls,  \* number of calls made
    texturePriority, \* _TEXTURE_CHANGE_PRIORITY of this process
    active,      \* an object's texture-changing states whose value is true
    winner,      \* the state whose texture the object shows, or "none"
    abilities,   \* the ability mapping an object is prepared with, in dict order
    resolved,    \* state kind -> constructor parameters, as resolved for it
    resolveErr,  \* the exception resolving raised, or NoError
    resolveDone, \* the object's abilities have been resolved
    states,      \* the object's instance map: state kind -> instance
    built,       \* the instance map has been built
    lastCall,    \* the last call of a lookup: what it raised and returned
    fluidSource, \* the classes that subclass FluidSource
    tick,        \* the last update pass over an object's instances
    run,         \* a computation in progress: the sort, or the closure of resolve
    teleop       \* the KeyboardRobotController of a robot

vars == <<phase, allStates, listLen, loadErr, required, optional, hashOrder,
          order, orderErr, orderCalls, texturePriority, active, winner,
          abilities, resolved, resolveErr, resolveDone, states, built,
          lastCall, fluidSource, tick, run, teleop>>
objectVars == <<abilities, resolved, resolveErr, resolveDone, states, built>>
orderVars == <<order, orderErr, orderCalls>>
catalogVars == <<allStates, listLen, required, optional>>
textureVars == <<texturePriority, active, winner>>
serviceVars == <<lastCall, fluidSource, tick, run, teleop>>

NoError == [type |-> "none", names |-> {}]
NoCall == [op |-> "none", raised |-> NoError, value |-> <<>>]
NoRun == [op |-> "none", done |-> FALSE, nodes |-> <<>>, zero |-> <<>>, indeg |-> <<>>,
          out |-> <<>>, result |-> <<>>, err |-> NoError, map |-> <<>>]
NoTick == [done |-> FALSE, updated |-> <<>>, failed |-> {}, raised |-> NoError,
           instances |-> {}]

\* ------------------------------------------- the keyboard robot controller
\* Controllers of the robot a KeyboardRobotController is made for.
MaxControllers == 2
\* KEY_PRESS events of T counted between two calls of get_teleop_action().
MaxPresses == 2

\* Python's None in the "idx" and in the "val" of a keypress mapping; the
\* values are kept in tenths (0.1 is 1, 1.0 is 10), so no value is zero.
NoneIdx == -1
NoneVal == 0

\* The controllers a robot has: type(controller).__name__, command_dim and
\* the number of entries of dof_idx.
ControllerPool ==
    { [name |-> "JointController", command_dim |-> 1, dofs |-> 1],
      [name |-> "JointController", command_dim |-> 2, dofs |-> 2],
      [name |-> "DifferentialDriveController", command_dim |-> 2, dofs |-> 2],
      [name |-> "InverseKinematicsController", command_dim |-> 6, dofs |-> 7],
      [name |-> "MultiFingerGripperController", command_dim |-> 1, dofs |-> 2],
      [name |-> "MultiFingerGripperController", command_dim |-> 2, dofs |-> 2],
      [name |-> "NullJointController", command_dim |-> 2, dofs |-> 2] }

\* robot._controllers, in dict order; a component is named by its position.
RobotPool == UNION {[1..n -> ControllerPool] : n \in 1..MaxControllers}

\* The keys of the events delivered, and the kinds of event.
KeyPool == {"RIGHT_BRACKET", "KEY_1", "KEY_2", "KEY_3", "KEY_4", "KEY_5",
            "KEY_6", "T", "I", "UP", "R"}
EventTypes == {"KEY_PRESS", "KEY_REPEAT", "KEY_RELEASE"}

\* active_action when it is None.
NoAction == <<>>

\* The controller before it is constructed.  t_presses is a history field:
\* the KEY_PRESS events of T since the last call of get_teleop_action().
NoTeleop ==
    [built |-> FALSE, action_dim |-> 0, controller_info |-> <<>>,
     joint_command_idx |-> <<>>, joint_control_idx |-> <<>>,
     active_joint_command_idx_idx |-> 0, ik_arms |-> <<>>, active_arm_idx |-> 0,
     binary_grippers |-> <<>>, active_gripper_idx |-> 0,
     gripper_direction |-> [c \in {} |-> 0],
     persistent_gripper_action |-> [c \in {} |-> 0],
     keypress_mapping |-> [k \in {} |-> 0], active_action |-> NoAction,
     toggling_gripper |-> FALSE, raised |-> NoError, action |-> <<>>,
     t_presses |-> 0]

\* ------------------------------------------------------------- sequences
Injective(s) == \A i, j \in DOMAIN s : s[i] = s[j] => i = j

\* Every order in which a set can be iterated.
Perms(S) == {s \in [1..Cardinality(S) -> S] : Injective(s)}

Index(s, x) == CHOOSE i \in DOMAIN s : s[i] = x

Reverse(s) == [i \in 1..Len(s) |-> s[Len(s) + 1 - i]]

Member(s, x) == \E i \in DOMAIN s : s[i] = x

\* A set of pool classes as the list a class body writes (pool order).
ListOf(S) == SelectSeq(PoolSeq, LAMBDA k : k \in S)

GetDependencies(k) == IF k \in DOMAIN required THEN ListOf(required[k]) ELSE <<>>
GetOptionalDependencies(k) == IF k \in DOMAIN optional THEN ListOf(optional[k]) ELSE <<>>

NumDeps ==
    Cardinality({p \in Pool \X Pool : p[2] \in required[p[1]]})
    + Cardinality({p \in Pool \X Pool : p[2] \in optional[p[1]]})

\* ------------------------------------------------------ dependency graph
\* get_all_states()
GetAllStates == allStates

\* nx.DiGraph(dict of lists): the keys become nodes in the dict's order, then
\* every (key, value) pair becomes an edge key -> value, a value that is no
\* key becoming a node when its edge is added; a repeated edge is one edge.
RECURSIVE AddEdges(_, _, _)
AddEdges(G, u, vs) ==
    IF vs = <<>> THEN G
    ELSE LET v == Head(vs)
             nodes == IF Member(G.nodes, v) THEN G.nodes ELSE Append(G.nodes, v)
             adj == [n \in Range(nodes) |->
                        IF n = u
                        THEN (IF Member(G.adj[u], v) THEN G.adj[u] ELSE Append(G.adj[u], v))
                        ELSE IF Member(G.nodes, n) THEN G.adj[n] ELSE <<>>]
         IN  AddEdges([nodes |-> nodes, adj |-> adj], u, Tail(vs))

RECURSIVE FromDictOfLists(_, _, _)
FromDictOfLists(G, keys, d) ==
    IF keys = <<>> THEN G
    ELSE FromDictOfLists(AddEdges(G, Head(keys), d[Head(keys)]), Tail(keys), d)

DiGraph(keys, d) ==
    FromDictOfLists([nodes |-> keys, adj |-> [n \in Range(keys) |-> <<>>]], keys, d)

\* A process that rebuilt the set before every call would iterate it in
\* another order from one call to the next.
IterAllStatesRebuilt(h, call) == IF call % 2 = 0 THEN Reverse(h) ELSE h

\* `for state in get_all_states()`: the set is built once, so every call of
\* a process iterates it in that process's order h.
IterAllStates(h, call) == h

\* A graph built from the required dependencies alone.
GetStateDependencyGraphRequiredOnly(iter) ==
    LET dependencies == [state \in GetAllStates |-> GetDependencies(state)]
    IN  DiGraph(iter, dependencies)

\* A graph whose edges run from the dependency to the class that declares it.
GetStateDependencyGraphTransposed(iter) ==
    LET dependencies == [state \in GetAllStates |->
                            GetDependencies(state) \o GetOptionalDependencies(state)]
        G == DiGraph(iter, dependencies)
    IN  [nodes |-> G.nodes,
         adj |-> [n \in Range(G.nodes) |->
                     SelectSeq(G.nodes, LAMBDA u : Member(G.adj[u], n))]]

\* The graph as a process iterating _ALL_STATES in order iter builds it.
GetStateDependencyGraph(iter) ==
    LET dependencies == [state \in GetAllStates |->
                            GetDependencies(state) \o GetOptionalDependencies(state)]
    IN  DiGraph(iter, dependencies)

\* ------------------------------------------------------ topological sort
InDegree(G, v) == Cardinality({u \in Range(G.nodes) : Member(G.adj[u], v)})

RECURSIVE Concat(_, _)
Concat(G, gen) == IF gen = <<>> THEN <<>> ELSE G.adj[Head(gen)] \o Concat(G, Tail(gen))

\* A generation that takes every child, whatever its in-degree.
RECURSIVE RelaxEveryChild(_, _, _)
RelaxEveryChild(children, indeg, zero) ==
    IF children = <<>> THEN [indeg |-> indeg, zero |-> zero]
    ELSE LET c == Head(children)
             d == indeg[c] - 1
         IN  RelaxEveryChild(Tail(children), [indeg EXCEPT ![c] = d], Append(zero, c))

\* One generation of nx.topological_generations: every edge out of the
\* generation lowers its child's in-degree, a child reaching 0 joins the next.
RECURSIVE Relax(_, _, _)
Relax(children, indeg, zero) ==
    IF children = <<>> THEN [indeg |-> indeg, zero |-> zero]
    ELSE LET c == Head(children)
             d == indeg[c] - 1
         IN  Relax(Tail(children), [indeg EXCEPT ![c] = d],
                   IF d = 0 THEN Append(zero, c) ELSE zero)

RECURSIVE Generations(_, _, _, _)
Generations(G, zero, indeg, out) ==
    IF zero = <<>> THEN [out |-> out, indeg |-> indeg]
    ELSE LET r == Relax(Concat(G, zero), indeg, <<>>)
         IN  Generations(G, r.zero, r.indeg, out \o zero)

\* The sort without the final check of the in-degrees left over.
TopologicalSortUnchecked(G) ==
    LET indeg == [v \in Range(G.nodes) |-> InDegree(G, v)]
        zero == SelectSeq(G.nodes, LAMBDA v : indeg[v] = 0)
        r == Generations(G, zero, indeg, <<>>)
    IN  [err |-> NoError, out |-> r.out]

\* A sort whose failure reports the nodes that were left unsorted.
TopologicalSortNamingLeftOver(G) ==
    LET indeg == [v \in Range(G.nodes) |-> InDegree(G, v)]
        zero == SelectSeq(G.nodes, LAMBDA v : indeg[v] = 0)
        r == Generations(G, zero, indeg, <<>>)
    IN  IF \E v \in Range(G.nodes) : r.indeg[v] > 0
        THEN [err |-> [type |-> "NetworkXUnfeasible",
                       names |-> {v \in Range(G.nodes) : r.indeg[v] > 0}],
              out |-> <<>>]
        ELSE [err |-> NoError, out |-> r.out]

\* nx.algorithms.topological_sort, consumed by list(): the generations in
\* turn, and NetworkXUnfeasible (whose message names no node) when nodes
\* with a positive in-degree are left.
TopologicalSort(G) ==
    LET indeg == [v \in Range(G.nodes) |-> InDegree(G, v)]
        zero == SelectSeq(G.nodes, LAMBDA v : indeg[v] = 0)
        r == Generations(G, zero, indeg, <<>>)
    IN  IF \E v \in Range(G.nodes) : r.indeg[v] > 0
        THEN [err |-> [type |-> "NetworkXUnfeasible", names |-> {}], out |-> <<>>]
        ELSE [err |-> NoError, out |-> r.out]

\* The class names in ascending lexical order, and a name's place in it.
LexSorted == <<"Burnt", "Cooked", "HeatSourceOrSink", "Pose", "Soaked", "Temperature">>
NameRank(k) == Index(LexSorted, k)

\* Kahn's algorithm taking, of the nodes whose dependencies are all out,
\* the one of the smallest name.
RECURSIVE LexKahn(_, _, _)
LexKahn(G, left, out) ==
    LET ready == {k \in left : Range(G.adj[k]) \cap left = {}}
    IN  IF ready = {} THEN out
        ELSE LET k == CHOOSE c \in ready : \A j \in ready : NameRank(c) <= NameRank(j)
             IN  LexKahn(G, left \ {k}, Append(out, k))

\* An order whose ties go by name.
StatesByDependencyOrderLexical(iter) ==
    LET G == GetStateDependencyGraph(iter)
        out == LexKahn(G, Range(G.nodes), <<>>)
    IN  IF Len(out) < Len(G.nodes)
        THEN [err |-> [type |-> "NetworkXUnfeasible", names |-> {}], out |-> <<>>]
        ELSE [err |-> NoError, out |-> out]

\* The order without reversed(): dependents first.
StatesByDependencyOrderForward(iter) ==
    TopologicalSort(GetStateDependencyGraph(iter))

\* An order that loses its first class.
StatesByDependencyOrderTruncated(iter) ==
    LET r == TopologicalSort(GetStateDependencyGraph(iter))
    IN  [err |-> r.err, out |-> IF r.out = <<>> THEN <<>> ELSE Tail(Reverse(r.out))]

StatesByDependencyOrder(iter) ==
    LET r == TopologicalSort(GetStateDependencyGraph(iter))
    IN  [err |-> r.err, out |-> Reverse(r.out)]

\* ----------------------------------------------------------------- init
Init ==
    /\ phase = "loading"
    /\ allStates = {}
    /\ listLen = 0
    /\ loadErr = NoError
    /\ required = [k \in Pool |-> {}]
    /\ optional = [k \in Pool |-> {}]
    /\ hashOrder = <<>>
    /\ order = <<>>
    /\ orderErr = NoError
    /\ orderCalls = 0
    /\ texturePriority = [k \in {} |-> 0]
    /\ active = {}
    /\ winner = "none"
    /\ abilities = <<>>
    /\ resolved = [k \in {} |-> EmptyParams]
    /\ resolveErr = NoError
    /\ resolveDone = FALSE
    /\ states = [k \in {} |-> EmptyParams]
    /\ built = FALSE
    /\ lastCall = NoCall
    /\ fluidSource = {}
    /\ tick = NoTick
    /\ run = NoRun
    /\ teleop = NoTeleop

\* -------------------------------------------------------------- actions
\* A class body lists d in get_dependencies() or get_optional_dependencies().
\* The declarations drawn are between distinct classes, MaxDeps in all.
DeclareDependency(k, d, t) ==
    /\ phase = "loading"
    /\ NumDeps < MaxDeps
    /\ k # d
    /\ IF t = "required"
       THEN /\ d \notin required[k]
            /\ required' = [required EXCEPT ![k] = @ \cup {d}]
            /\ UNCHANGED optional
       ELSE /\ d \notin optional[k]
            /\ optional' = [optional EXCEPT ![k] = @ \cup {d}]
            /\ UNCHANGED required
    /\ UNCHANGED <<phase, allStates, listLen, loadErr, hashOrder, orderVars, textureVars,
                   objectVars, serviceVars>>

\* A catalog that refused an entry it already holds.
SetAddStrict(S, k) ==
    IF k \in S THEN [set |-> S, err |-> [type |-> "RegistrationError", names |-> {k}]]
    ELSE [set |-> S \cup {k}, err |-> NoError]

\* frozenset(iterable) takes the entries in turn; one it already holds is
\* merged, and nothing is raised.
SetAdd(S, k) == [set |-> S \cup {k}, err |-> NoError]

\* One entry of the list that _ALL_STATES is built from.
Register(k) ==
    /\ phase = "loading"
    /\ loadErr = NoError
    /\ listLen < MaxEntries
    /\ LET r == SetAdd(allStates, k)
       IN  /\ allStates' = r.set
           /\ loadErr' = r.err
    /\ listLen' = listLen + 1
    /\ UNCHANGED <<phase, required, optional, hashOrder, orderVars, textureVars, objectVars, serviceVars>>

\* One entry `kind: rank` of the dict literal _TEXTURE_CHANGE_PRIORITY.
AddPriority(k, r) ==
    /\ phase = "loading"
    /\ loadErr = NoError
    /\ k \notin DOMAIN texturePriority
    /\ texturePriority' = [j \in DOMAIN texturePriority \cup {k} |->
                              IF j = k THEN r ELSE texturePriority[j]]
    /\ UNCHANGED <<phase, loadErr, catalogVars, hashOrder, orderVars, active, winner,
                   objectVars, serviceVars>>

SharedRank(table) ==
    {k \in DOMAIN table : \E j \in DOMAIN table : j # k /\ table[j] = table[k]}

\* A module body that ended by checking the ranks of the priority table.
ModuleBodyEndRanksChecked ==
    IF SharedRank(texturePriority) # {}
    THEN [type |-> "RegistrationError", names |-> SharedRank(texturePriority)]
    ELSE NoError

\* What the dependency declarations of catalog kinds and the entries of the
\* ability table name without the catalog holding it.
UnresolvedDependencies ==
    UNION {required[k] \cup optional[k] : k \in allStates \cap Pool} \ allStates
UnresolvedAbilityKinds ==
    UNION {Range(ABILITY_TO_STATE_MAPPING[a]) : a \in DOMAIN ABILITY_TO_STATE_MAPPING}
        \ allStates

\* A module body that ended by resolving every name against the catalog.
ModuleBodyEndNamesChecked ==
    IF UnresolvedDependencies \cup UnresolvedAbilityKinds # {}
    THEN [type |-> "RegistrationError",
          names |-> UnresolvedDependencies \cup UnresolvedAbilityKinds]
    ELSE NoError

\* The module body ends after its last table: nothing validates the catalog
\* or the tables, so nothing is raised.
ModuleBodyEnd == NoError

\* The module body has run: _ALL_STATES is a frozenset, iterated by this
\* process in one of the orders a hash table can give.
Freeze ==
    /\ phase = "loading"
    /\ loadErr = NoError
    /\ loadErr' = ModuleBodyEnd
    /\ phase' = IF loadErr' = NoError THEN "frozen" ELSE "loading"
    /\ hashOrder' \in Perms(allStates)
    /\ listLen' = 0
    /\ UNCHANGED <<allStates, required, optional, orderVars, textureVars, objectVars, serviceVars>>

\* A catalog that could still be added to after the module has loaded.
FrozenSetAddMutable(S, k) == [set |-> S \cup {k}, err |-> NoError]

\* _ALL_STATES is a frozenset: it has no add(), so looking the method up
\* raises AttributeError and the set is what it was.
FrozenSetAdd(S, k) == [set |-> S, err |-> [type |-> "AttributeError", names |-> {}]]

\* Some code tries to enter one more class into the loaded catalog.
RegisterLate(k) ==
    /\ phase = "frozen"
    /\ LET r == FrozenSetAdd(allStates, k)
       IN  /\ allStates' = r.set
           /\ lastCall' = [op |-> "add", raised |-> r.err, value |-> <<>>]
    /\ UNCHANGED <<phase, listLen, loadErr, required, optional, hashOrder, orderVars,
                   textureVars, objectVars, fluidSource, tick, run, teleop>>

\* ---------------------------------------------------------------- lookups
\* get_state_name(state): the class's __name__; the model writes a class by
\* that name.
GetStateName(state) == state

\* A lookup that raises an error of its own for a name no class has.
StateFromNameChecked(iter, name) ==
    LET found == SelectSeq(iter, LAMBDA st : GetStateName(st) = name)
    IN  IF found = <<>>
        THEN [raised |-> [type |-> "UnknownStateError", names |-> {name}], value |-> <<>>]
        ELSE [raised |-> NoError, value |-> <<found[1]>>]

\* get_state_from_name(name): next() of a generator over _ALL_STATES gives
\* the first class of that name, and raises StopIteration when the generator
\* yields nothing.
StateFromName(iter, name) ==
    LET found == SelectSeq(iter, LAMBDA st : GetStateName(st) = name)
    IN  IF found = <<>>
        THEN [raised |-> [type |-> "StopIteration", names |-> {}], value |-> <<>>]
        ELSE [raised |-> NoError, value |-> <<found[1]>>]

GetStateFromName(name) ==
    /\ phase = "frozen"
    /\ LET r == StateFromName(hashOrder, name)
       IN  lastCall' = [op |-> "get_state_from_name", raised |-> r.raised,
                        value |-> r.value]
    /\ UNCHANGED <<phase, loadErr, catalogVars, hashOrder, orderVars, textureVars,
                   objectVars, fluidSource, tick, run, teleop>>

\* A class is defined as a subclass of FluidSource.
DeclareFluidSource(k) ==
    /\ phase = "loading"
    /\ k \notin fluidSource
    /\ fluidSource' = fluidSource \cup {k}
    /\ UNCHANGED <<phase, loadErr, catalogVars, hashOrder, orderVars, textureVars,
                   objectVars, lastCall, tick, run, teleop>>

\* issubclass(state, FluidSource)
IsFluidSource(state) == state \in fluidSource

\* A lookup that forgot the filter.
FluidSourceStatesUnfiltered(iter) == iter

\* get_fluid_source_states(): the classes of _ALL_STATES, in the order the
\* set is iterated, that subclass FluidSource.
FluidSourceStates(iter) == SelectSeq(iter, LAMBDA st : IsFluidSource(st))

GetFluidSourceStates ==
    /\ phase = "frozen"
    /\ lastCall' = [op |-> "get_fluid_source_states", raised |-> NoError,
                    value |-> FluidSourceStates(hashOrder)]
    /\ UNCHANGED <<phase, loadErr, catalogVars, hashOrder, orderVars, textureVars,
                   objectVars, fluidSource, tick, run, teleop>>

\* get_texture_change_priority()
GetTextureChangePriority == texturePriority

\* get_texture_change_states()
GetTextureChangeStates == TEXTURE_CHANGE_STATE_SET

\* The state shown among those active: one of the highest rank.
WinnerOf(S) ==
    IF S = {} THEN "none"
    ELSE CHOOSE k \in S :
            \A j \in S : GetTextureChangePriority[j] <= GetTextureChangePriority[k]

\* One texture-changing state of the object changes its value, and the
\* object's texture is chosen again.
ToggleState(k) ==
    /\ phase = "frozen"
    /\ k \in DOMAIN GetTextureChangePriority
    /\ active' = IF k \in active THEN active \ {k} ELSE active \cup {k}
    /\ winner' = WinnerOf(active')
    /\ UNCHANGED <<phase, loadErr, catalogVars, hashOrder, orderVars, texturePriority,
                   objectVars, serviceVars>>

GetStatesByDependencyOrder ==
    /\ phase = "frozen"
    /\ orderCalls < MaxCalls
    /\ LET r == StatesByDependencyOrder(IterAllStates(hashOrder, orderCalls + 1))
       IN  /\ order' = r.out
           /\ orderErr' = r.err
    /\ orderCalls' = orderCalls + 1
    /\ UNCHANGED <<phase, loadErr, catalogVars, hashOrder, textureVars, objectVars, serviceVars>>

\* ------------------------------------------------------ object abilities
\* A lookup that mistakes the fire states for the default states.
GetDefaultStatesAsFire == FIRE_STATE_SET

\* A lookup that knows no default state.
GetDefaultStatesEmpty == {}

\* get_default_states()
GetDefaultStates == DEFAULT_STATE_SET

\* A lookup that raises for an ability that is no key of the table.
GetStatesForAbilityStrict(ability) ==
    IF ability \notin DOMAIN ABILITY_TO_STATE_MAPPING
    THEN [raised |-> [type |-> "UnknownAbilityError", names |-> {ability}], value |-> <<>>]
    ELSE [raised |-> NoError, value |-> ABILITY_TO_STATE_MAPPING[ability]]

\* A lookup whose table has lost the entry of heatSource.
GetStatesForAbilityNoHeatSource(ability) ==
    IF ability \notin DOMAIN ABILITY_TO_STATE_MAPPING \/ ability = "heatSource"
    THEN [raised |-> NoError, value |-> <<>>]
    ELSE [raised |-> NoError, value |-> ABILITY_TO_STATE_MAPPING[ability]]

\* get_states_for_ability(ability): what it returns, and what it raises.
GetStatesForAbility(ability) ==
    IF ability \notin DOMAIN ABILITY_TO_STATE_MAPPING
    THEN [raised |-> NoError, value |-> <<>>]
    ELSE [raised |-> NoError, value |-> ABILITY_TO_STATE_MAPPING[ability]]

\* Step 2 of resolving: every kind an ability maps to takes the parameters
\* of that ability, a later ability overwriting an earlier one.
RECURSIVE AddAbilities(_, _)
AddAbilities(m, input) ==
    IF input = <<>> THEN [err |-> NoError, map |-> m]
    ELSE LET r == GetStatesForAbility(Head(input)[1])
             kinds == Range(r.value)
             m2 == [k \in DOMAIN m \cup kinds |->
                       IF k \in kinds THEN Head(input)[2] ELSE m[k]]
         IN  IF r.raised # NoError THEN [err |-> r.raised, map |-> m]
             ELSE AddAbilities(m2, Tail(input))

\* Step 3: required dependencies of members join with empty parameters
\* until none is missing.
RECURSIVE CloseRequired(_)
CloseRequired(m) ==
    LET missing == UNION {Range(GetDependencies(k)) : k \in DOMAIN m} \ DOMAIN m
    IN  IF missing = {} THEN m
        ELSE CloseRequired([k \in DOMAIN m \cup missing |->
                               IF k \in missing THEN EmptyParams ELSE m[k]])

ResolveAbilities(input) ==
    LET start == [k \in GetDefaultStates |-> EmptyParams]
        r == AddAbilities(start, input)
    IN  IF r.err # NoError THEN [err |-> r.err, map |-> [k \in {} |-> EmptyParams]]
        ELSE [err |-> NoError, map |-> CloseRequired(r.map)]

\* The ability mappings an object may declare: up to MaxAbilities distinct
\* ability names, each with a parameter payload.
AbilityInputs ==
    UNION {{s \in [1..n -> AbilityPool \X ParamsPool] :
                \A i, j \in 1..n : s[i][1] = s[j][1] => i = j} : n \in 0..MaxAbilities}

\* An object is created with the ability mapping `input`.
Resolve(input) ==
    /\ phase = "frozen"
    /\ ~resolveDone
    /\ abilities' = input
    /\ LET r == ResolveAbilities(input)
       IN  /\ resolved' = r.map
           /\ resolveErr' = r.err
    /\ resolveDone' = TRUE
    /\ UNCHANGED <<phase, loadErr, catalogVars, hashOrder, orderVars, textureVars,
                   states, built, serviceVars>>

\* A constructor that takes empty parameters for none.
GetObjectStateInstanceNeedsParams(stateClass, params) ==
    IF params = EmptyParams
    THEN [raised |-> [type |-> "AssertionError", names |-> {stateClass}], value |-> params]
    ELSE [raised |-> NoError, value |-> params]

\* A factory that constructs whatever class it is given.
GetObjectStateInstanceUnchecked(stateClass, params) ==
    [raised |-> NoError, value |-> params]

\* issubclass(state_class, BaseObjectState)
IsBaseObjectState(stateClass) == stateClass \notin NonStateClasses

\* get_object_state_instance(state_class, obj, params): `assert False` for
\* a class that is no BaseObjectState; otherwise the constructor is called
\* and the instance, which holds its parameters, is returned as it is.
GetObjectStateInstance(stateClass, params) ==
    IF ~IsBaseObjectState(stateClass)
    THEN [raised |-> [type |-> "AssertionError", names |-> {stateClass}],
          value |-> EmptyParams]
    ELSE [raised |-> NoError, value |-> params]

\* The instance map of the object: an instance for every resolved kind
\* whose construction raised nothing.
BuildStates ==
    /\ phase = "frozen"
    /\ resolveDone
    /\ resolveErr = NoError
    /\ ~built
    /\ LET made == {k \in DOMAIN resolved :
                       GetObjectStateInstance(k, resolved[k]).raised = NoError}
       IN  states' = [k \in made |-> GetObjectStateInstance(k, resolved[k]).value]
    /\ built' = TRUE
    /\ UNCHANGED <<phase, loadErr, catalogVars, hashOrder, orderVars, textureVars,
                   abilities, resolved, resolveErr, resolveDone, serviceVars>>

\* An object that refuses a second instance of a class.
InstantiateOnce(stateClass, params) ==
    /\ phase = "frozen"
    /\ LET r == IF stateClass \in DOMAIN states
                THEN [raised |-> [type |-> "DuplicateStateError", names |-> {stateClass}],
                      value |-> EmptyParams]
                ELSE GetObjectStateInstance(stateClass, params)
       IN  /\ lastCall' = [op |-> "get_object_state_instance", raised |-> r.raised,
                           value |-> <<r.value>>]
           /\ states' = IF r.raised # NoError THEN states
                        ELSE [k \in DOMAIN states \cup {stateClass} |->
                                 IF k = stateClass THEN r.value ELSE states[k]]
    /\ UNCHANGED <<phase, loadErr, catalogVars, hashOrder, orderVars, textureVars,
                   abilities, resolved, resolveErr, resolveDone, built, fluidSource,
                   tick, run, teleop>>

\* One call of get_object_state_instance for the object; what it returns is
\* kept in the object's map under the class, and a call that raises returns
\* nothing to keep.
Instantiate(stateClass, params) ==
    /\ phase = "frozen"
    /\ LET r == GetObjectStateInstance(stateClass, params)
       IN  /\ lastCall' = [op |-> "get_object_state_instance", raised |-> r.raised,
                           value |-> <<r.value>>]
           /\ states' = IF r.raised # NoError THEN states
                        ELSE [k \in DOMAIN states \cup {stateClass} |->
                                 IF k = stateClass THEN r.value ELSE states[k]]
    /\ UNCHANGED <<phase, loadErr, catalogVars, hashOrder, orderVars, textureVars,
                   abilities, resolved, resolveErr, resolveDone, built, fluidSource,
                   tick, run, teleop>>

\* ----------------------------------------------------------- update pass
\* A pass that lets the first failure of an update escape.
RECURSIVE UpdatePassPropagating(_, _, _, _)
UpdatePassPropagating(ord, instances, failing, acc) ==
    IF ord = <<>> \/ acc.raised # NoError THEN acc
    ELSE LET k == Head(ord)
         IN  IF k \notin instances \/ Range(GetDependencies(k)) \cap acc.failed # {}
             THEN UpdatePassPropagating(Tail(ord), instances, failing, acc)
             ELSE UpdatePassPropagating(Tail(ord), instances, failing,
                     [updated |-> Append(acc.updated, k),
                      failed |-> IF k \in failing THEN acc.failed \cup {k} ELSE acc.failed,
                      raised |-> IF k \in failing
                                 THEN [type |-> "UpdateError", names |-> {k}]
                                 ELSE NoError])

\* A pass that updates a class although a class it requires has failed.
RECURSIVE UpdatePassNoSkip(_, _, _, _)
UpdatePassNoSkip(ord, instances, failing, acc) ==
    IF ord = <<>> THEN acc
    ELSE LET k == Head(ord)
         IN  IF k \notin instances
             THEN UpdatePassNoSkip(Tail(ord), instances, failing, acc)
             ELSE UpdatePassNoSkip(Tail(ord), instances, failing,
                     [updated |-> Append(acc.updated, k),
                      failed |-> IF k \in failing THEN acc.failed \cup {k} ELSE acc.failed,
                      raised |-> NoError])

\* One pass over an object's instances: the classes of the order are taken
\* in turn; one the object has no instance of is passed over, and so is one
\* that requires a class whose update has failed in this pass; any other is
\* updated, and a failure of its update is caught and recorded.
RECURSIVE UpdatePass(_, _, _, _)
UpdatePass(ord, instances, failing, acc) ==
    IF ord = <<>> THEN acc
    ELSE LET k == Head(ord)
         IN  IF k \notin instances \/ Range(GetDependencies(k)) \cap acc.failed # {}
             THEN UpdatePass(Tail(ord), instances, failing, acc)
             ELSE UpdatePass(Tail(ord), instances, failing,
                     [updated |-> Append(acc.updated, k),
                      failed |-> IF k \in failing THEN acc.failed \cup {k} ELSE acc.failed,
                      raised |-> NoError])

\* The order the passes follow: that of get_states_by_dependency_order().
GlobalOrder == StatesByDependencyOrder(IterAllStates(hashOrder, 1))

\* A simulation step updates an object that has instances of the classes
\* `instances`, of which those in `failing` raise when they are updated.
\* A pass reads nothing that a pass writes, so one pass is followed.
UpdateTick(instances, failing) ==
    /\ phase = "frozen"
    /\ ~tick.done
    /\ LET ord == GlobalOrder
           r == UpdatePass(ord.out, instances, failing,
                           [updated |-> <<>>, failed |-> {}, raised |-> NoError])
       IN  /\ ord.err = NoError
           /\ tick' = [done |-> TRUE, updated |-> r.updated, failed |-> r.failed,
                    raised |-> r.raised, instances |-> instances]
    /\ UNCHANGED <<phase, loadErr, catalogVars, hashOrder, orderVars, textureVars,
                   objectVars, lastCall, fluidSource, run, teleop>>

\* ------------------------------------------------- computations, by step
\* get_states_by_dependency_order() is called: the graph is built and the
\* sort takes the nodes of in-degree 0.
SortStart ==
    /\ phase = "frozen"
    /\ run.op = "none"
    /\ LET G == GetStateDependencyGraph(IterAllStates(hashOrder, 1))
           indeg == [v \in Range(G.nodes) |-> InDegree(G, v)]
       IN  run' = [NoRun EXCEPT !.op = "sort", !.nodes = G.nodes, !.indeg = indeg,
                                !.zero = SelectSeq(G.nodes, LAMBDA v : indeg[v] = 0)]
    /\ UNCHANGED <<phase, loadErr, catalogVars, hashOrder, orderVars, textureVars,
                   objectVars, lastCall, fluidSource, tick, teleop>>

\* One turn of the sort's `while zero_indegree` loop, or its end: the check
\* of the in-degrees left over, and reversed() of what was emitted.
SortStep ==
    /\ run.op = "sort"
    /\ ~run.done
    /\ LET G == GetStateDependencyGraph(IterAllStates(hashOrder, 1))
       IN  IF run.zero = <<>>
           THEN LET left == \E v \in Range(run.nodes) : run.indeg[v] > 0
                IN  run' = [run EXCEPT
                               !.done = TRUE,
                               !.err = IF left
                                       THEN [type |-> "NetworkXUnfeasible", names |-> {}]
                                       ELSE NoError,
                               !.result = IF left THEN <<>> ELSE Reverse(run.out)]
           ELSE LET r == Relax(Concat(G, run.zero), run.indeg, <<>>)
                IN  run' = [run EXCEPT !.zero = r.zero, !.indeg = r.indeg,
                                       !.out = run.out \o run.zero]
    /\ UNCHANGED <<phase, loadErr, catalogVars, hashOrder, orderVars, textureVars,
                   objectVars, lastCall, fluidSource, tick, teleop>>

\* The required dependencies that the kinds of m declare and m lacks.
MissingRequired(m) == UNION {Range(GetDependencies(k)) : k \in DOMAIN m} \ DOMAIN m

\* An object with the one ability a is resolved: the default states and
\* the states of the ability are in, and the closure begins.
CloseStart(a) ==
    /\ phase = "frozen"
    /\ run.op = "none"
    /\ LET r == AddAbilities([k \in GetDefaultStates |-> EmptyParams],
                             <<(<<a, EmptyParams>>)>>)
       IN  run' = [NoRun EXCEPT !.op = "close", !.map = r.map]
    /\ UNCHANGED <<phase, loadErr, catalogVars, hashOrder, orderVars, textureVars,
                   objectVars, lastCall, fluidSource, tick, teleop>>

\* One turn of the closure: the missing required dependencies join, and
\* the closure ends when none is missing.
CloseStep ==
    /\ run.op = "close"
    /\ ~run.done
    /\ LET missing == MissingRequired(run.map)
       IN  IF missing = {}
           THEN run' = [run EXCEPT !.done = TRUE]
           ELSE run' = [run EXCEPT !.map = [k \in DOMAIN run.map \cup missing |->
                                              IF k \in missing THEN EmptyParams
                                              ELSE run.map[k]]]
    /\ UNCHANGED <<phase, loadErr, catalogVars, hashOrder, orderVars, textureVars,
                   objectVars, lastCall, fluidSource, tick, teleop>>

Next ==
    \/ \E k \in Pool, d \in Pool, t \in DepTypes : DeclareDependency(k, d, t)
    \/ \E k \in Pool : Register(k)
    \/ Freeze
    \/ \E k \in Pool : RegisterLate(k)
    \/ GetStatesByDependencyOrder

Spec == Init /\ [][Next]_vars

\* The priority table and the texture an object shows.
NextTexture ==
    \/ \E k \in GetTextureChangeStates, r \in 0..MaxRank : AddPriority(k, r)
    \/ Freeze
    \/ \E k \in GetTextureChangeStates : ToggleState(k)

SpecTexture == Init /\ [][NextTexture]_vars

\* The lookups over the loaded catalog.
NextQuery ==
    \/ \E k \in Pool : Register(k)
    \/ \E k \in Pool : DeclareFluidSource(k)
    \/ Freeze
    \/ \E name \in Pool : GetStateFromName(name)
    \/ GetFluidSourceStates

SpecQuery == Init /\ [][NextQuery]_vars

\* Instances made for an object one by one.
NextInstance ==
    \/ \E k \in Pool : Register(k)
    \/ Freeze
    \/ \E c \in StateClassPool, p \in ParamsPool : Instantiate(c, p)

SpecInstance == Init /\ [][NextInstance]_vars

\* The update passes over the objects of a scene, whose classes declare the
\* dependencies that decide what a pass leaves out: the required ones.
NextTick ==
    \/ \E k \in Pool, d \in Pool : DeclareDependency(k, d, "required")
    \/ \E k \in Pool : Register(k)
    \/ Freeze
    \/ \E instances \in SUBSET allStates :
          \E failing \in SUBSET instances : UpdateTick(instances, failing)

SpecTick == Init /\ [][NextTick]_vars

\* The update passes over objects whose classes declare the dependencies
\* that a pass may find missing: the optional ones.
NextTickOptional ==
    \/ \E k \in Pool, d \in Pool : DeclareDependency(k, d, "optional")
    \/ \E k \in Pool : Register(k)
    \/ Freeze
    \/ \E instances \in SUBSET allStates :
          \E failing \in SUBSET instances : UpdateTick(instances, failing)

SpecTickOptional == Init /\ [][NextTickOptional]_vars

\* The sort and the closure of resolve, one loop turn at a time.
NextRun ==
    \/ \E k \in Pool, d \in Pool : DeclareDependency(k, d, "required")
    \/ \E k \in Pool : Register(k)
    \/ Freeze
    \/ SortStart
    \/ SortStep
    \/ \E a \in AbilityPool : CloseStart(a)
    \/ CloseStep

SpecRun == Init /\ [][NextRun]_vars

\* The states an object receives for its abilities.
NextObject ==
    \/ \E k \in Pool, d \in Pool, t \in DepTypes : DeclareDependency(k, d, t)
    \/ Freeze
    \/ \E input \in AbilityInputs : Resolve(input)
    \/ BuildStates

SpecObject == Init /\ [][NextObject]_vars

\* ------------------------------------------------------------ properties
\* The dependency declarations the graph is built from: k depends on d.
DepEdges == {p \in allStates \X Pool : p[2] \in required[p[1]] \cup optional[p[1]]}

\* k reaches d along n or fewer dependency declarations.
RECURSIVE Reaches(_, _, _)
Reaches(k, d, n) ==
    /\ n > 0
    /\ \/ <<k, d>> \in DepEdges
       \/ \E m \in Pool : <<k, m>> \in DepEdges /\ Reaches(m, d, n - 1)

OnCycle(k) == Reaches(k, k, MaxKinds)
HasCycle == \E k \in Pool : OnCycle(k)

OrderComputed == orderCalls > 0

Before(s, d, k) ==
    /\ Member(s, d)
    /\ Member(s, k)
    /\ Index(s, d) < Index(s, k)

\* C1: with an acyclic dependency graph the order is produced, and every
\* required and every optional dependency of a catalog kind stands at a
\* strictly smaller index than the kind.
C1_DependencyRespect ==
    (OrderComputed /\ ~HasCycle) =>
        /\ orderErr = NoError
        /\ \A p \in DepEdges : Before(order, p[2], p[1])

C1_Witness ==
    /\ OrderComputed
    /\ ~HasCycle
    /\ Len(order) = MaxKinds
    /\ \E k \in allStates : required[k] # {} /\ optional[k] # {}

C3_CycleNamed ==
    OrderComputed =>
        /\ (orderErr # NoError) <=> HasCycle
        /\ \A a, b \in allStates :
               (a # b /\ b \in required[a] /\ a \in required[b])
                   => {a, b} \subseteq orderErr.names

\* C3 amended: the call fails, with NetworkXUnfeasible and no order, exactly
\* when the graph has a cycle, and succeeds with every node of the graph in
\* the order otherwise; the failure names no kind.
C3_CycleDetected ==
    OrderComputed =>
        /\ HasCycle => (orderErr.type = "NetworkXUnfeasible" /\ order = <<>>)
        /\ ~HasCycle => (orderErr = NoError /\ allStates \subseteq Range(order))
        /\ orderErr.names = {}

C3_Witness ==
    /\ OrderComputed
    /\ orderErr.type = "NetworkXUnfeasible"
    /\ \E a, b \in allStates : a # b /\ b \in required[a] /\ a \in required[b]

\* C10 as claimed: an entry naming a kind the catalog already holds fails
\* with RegistrationError and leaves the catalog unchanged.
C10_DuplicateRejected ==
    [][(\E k \in allStates : Register(k)) =>
           (loadErr'.type = "RegistrationError" /\ allStates' = allStates)]_vars

\* C10 amended: an entry naming a kind (class) the catalog already holds
\* raises nothing; it is merged, and the catalog is unchanged.
C10_DuplicateMerged ==
    [][(\E k \in allStates : Register(k)) =>
           (loadErr' = NoError /\ allStates' = allStates)]_vars

C10_Witness ==
    /\ listLen > Cardinality(allStates)
    /\ allStates # {}
    /\ loadErr = NoError

SourceTableLoaded == phase = "frozen" /\ texturePriority = TEXTURE_CHANGE_PRIORITY

Rank(k) == GetTextureChangePriority[k]

\* C7: under the ranks the source declares, the state shown for a non-empty
\* set of active texture-changing states is the member whose rank is
\* strictly greater than that of every other member; Burnt wins over
\* Soaked, and Cooked over Soaked and ToggledOn.
C7_WinnerHighestRank ==
    (SourceTableLoaded /\ active # {}) =>
        /\ winner \in active
        /\ \A j \in active \ {winner} : Rank(winner) > Rank(j)
        /\ active = {"Burnt", "Soaked"} => winner = "Burnt"
        /\ active = {"Cooked", "Soaked", "ToggledOn"} => winner = "Cooked"

C7_Witness ==
    /\ SourceTableLoaded
    /\ active = {"Cooked", "Soaked", "ToggledOn"}
    /\ winner = "Cooked"

\* C8: the priority table the source declares ranks exactly the kinds of
\* get_texture_change_states(), and no two of them alike.
C8_PriorityTableExact ==
    SourceTableLoaded =>
        /\ DOMAIN GetTextureChangePriority = GetTextureChangeStates
        /\ \A j, k \in GetTextureChangeStates : Rank(j) = Rank(k) => j = k

C8_Witness ==
    /\ SourceTableLoaded
    /\ active = GetTextureChangeStates
    /\ winner = "Frozen"

\* C9 as claimed: a priority table in which two kinds share a rank never
\* becomes the table of a loaded (frozen) module.
C9_SharedRankRejected ==
    SharedRank(texturePriority) # {} => phase # "frozen"

\* C9 amended: when two kinds share a rank the module still loads: the end
\* of the module body raises nothing, the module becomes frozen and the
\* table keeps both kinds at that rank.
C9_SharedRankAccepted ==
    [][(SharedRank(texturePriority) # {} /\ Freeze) =>
           /\ loadErr' = NoError
           /\ phase' = "frozen"
           /\ SharedRank(texturePriority') = SharedRank(texturePriority)]_vars

C9_Witness ==
    /\ phase = "frozen"
    /\ loadErr = NoError
    /\ \E j, k \in DOMAIN texturePriority : j # k /\ texturePriority[j] = texturePriority[k]

\* k reaches d along n or fewer required dependencies.
RECURSIVE RequiredReaches(_, _, _)
RequiredReaches(k, d, n) ==
    /\ n > 0
    /\ k \in Pool
    /\ \/ d \in required[k]
       \/ \E m \in required[k] : RequiredReaches(m, d, n - 1)

AbilityNames(input) == {input[i][1] : i \in DOMAIN input}

\* The default states and the states the table lists for the given abilities.
NamedKinds(input) ==
    DEFAULT_STATE_SET
    \cup UNION {Range(ABILITY_TO_STATE_MAPPING[a]) :
                   a \in AbilityNames(input) \cap DOMAIN ABILITY_TO_STATE_MAPPING}

\* The least set that holds the named kinds and is closed under required
\* dependencies: what a chain of required dependencies reaches from them.
LeastClosed(input) ==
    NamedKinds(input)
    \cup {d \in Pool : \E k \in NamedKinds(input) : RequiredReaches(k, d, MaxKinds)}

AllRegistered(input) == AbilityNames(input) \subseteq DOMAIN ABILITY_TO_STATE_MAPPING

\* C4: for abilities that are all keys of the ability table, the resolved
\* kinds are exactly the least set holding the default states and the kinds
\* of the abilities that is closed under required dependencies; a kind that
\* is only an optional dependency is not in it.
C4_ResolveLeastClosure ==
    (resolveDone /\ AllRegistered(abilities)) =>
        /\ resolveErr = NoError
        /\ DOMAIN resolved = LeastClosed(abilities)

C4_Witness ==
    /\ resolveDone
    /\ AllRegistered(abilities)
    /\ AbilityNames(abilities) = {"cookable"}
    /\ required["Cooked"] = {"Temperature"}
    /\ required["Temperature"] = {"Pose"}
    /\ {"Cooked", "Temperature", "Pose"} \subseteq DOMAIN resolved

C6_UnknownAbilityRejected ==
    (resolveDone /\ ~AllRegistered(abilities)) => resolveErr.type = "UnknownAbilityError"

\* C6 amended: resolving such a mapping raises nothing; the unknown ability
\* contributes no state, and the result is that of the other abilities.
C6_UnknownAbilityIgnored ==
    (resolveDone /\ ~AllRegistered(abilities)) =>
        /\ resolveErr = NoError
        /\ DOMAIN resolved = LeastClosed(abilities)

C6_Witness ==
    /\ resolveDone
    /\ AbilityNames(abilities) = {"flies", "cookable"}
    /\ resolveErr = NoError
    /\ "Cooked" \in DOMAIN resolved

C13_AbsentNameUnknownStateError ==
    [][\A name \in Pool :
          (GetStateFromName(name) /\ name \notin {GetStateName(k) : k \in allStates})
              => lastCall'.raised.type = "UnknownStateError"]_vars

\* C13 amended: get_state_from_name(name) returns the class of the catalog
\* whose name is name when there is one, and raises StopIteration when there
\* is none.
C13_NameLookup ==
    [][\A name \in Pool :
          GetStateFromName(name) =>
              IF \E k \in allStates : GetStateName(k) = name
              THEN /\ lastCall'.raised = NoError
                   /\ Len(lastCall'.value) = 1
                   /\ lastCall'.value[1] \in allStates
                   /\ GetStateName(lastCall'.value[1]) = name
              ELSE /\ lastCall'.raised.type = "StopIteration"
                   /\ lastCall'.value = <<>>]_vars

C13_Witness ==
    /\ phase = "frozen"
    /\ allStates # {}
    /\ lastCall.op = "get_state_from_name"
    /\ lastCall.raised.type = "StopIteration"

\* C14: get_fluid_source_states() returns exactly the classes of the catalog
\* that subclass FluidSource, hence none outside the catalog, and a second
\* call right after a first returns the same set.
C14_FluidSourceStatesExact ==
    [][GetFluidSourceStates =>
          /\ lastCall'.raised = NoError
          /\ Range(lastCall'.value) = {k \in allStates : k \in fluidSource}
          /\ Range(lastCall'.value) \subseteq GetAllStates
          /\ lastCall.op = "get_fluid_source_states" =>
                Range(lastCall'.value) = Range(lastCall.value)]_vars

C14_Witness ==
    /\ lastCall.op = "get_fluid_source_states"
    /\ Range(lastCall.value) # {}
    /\ Range(lastCall.value) # allStates
    /\ fluidSource \ allStates # {}

\* C15 as claimed: given a class that cannot construct a state, the factory
\* fails with InvalidStateClassError.
C15_InvalidStateClassError ==
    [][\A c \in StateClassPool, p \in ParamsPool :
          (Instantiate(c, p) /\ ~IsBaseObjectState(c))
              => lastCall'.raised.type = "InvalidStateClassError"]_vars

\* C15 amended: given a class that is no BaseObjectState the factory fails
\* with AssertionError and the object's map is what it was; given any other
\* class it raises nothing and its instance is kept unexamined.
C15_NonStateClassAsserted ==
    [][\A c \in StateClassPool, p \in ParamsPool :
          Instantiate(c, p) =>
              IF IsBaseObjectState(c)
              THEN /\ lastCall'.raised = NoError
                   /\ c \in DOMAIN states'
                   /\ states'[c] = p
              ELSE /\ lastCall'.raised.type = "AssertionError"
                   /\ states' = states]_vars

C15_Witness ==
    /\ lastCall.op = "get_object_state_instance"
    /\ lastCall.raised.type = "AssertionError"
    /\ DOMAIN states # {}
    /\ DOMAIN states \cap NonStateClasses = {}

\* C16 as claimed: a call for a class the object already has an instance of
\* fails with DuplicateStateError.
C16_DuplicateStateError ==
    [][\A c \in Pool, p \in ParamsPool :
          (Instantiate(c, p) /\ c \in DOMAIN states)
              => lastCall'.raised.type = "DuplicateStateError"]_vars

\* C16 amended: a call for a class the object already has an instance of
\* raises nothing and returns a new instance; the map keeps the same classes,
\* one instance for each, the new one in the place of the old.
C16_DuplicateReplaces ==
    [][\A c \in Pool, p \in ParamsPool :
          (Instantiate(c, p) /\ c \in DOMAIN states) =>
              /\ lastCall'.raised = NoError
              /\ lastCall'.value = <<p>>
              /\ DOMAIN states' = DOMAIN states
              /\ \A k \in DOMAIN states \ {c} : states'[k] = states[k]]_vars

C16_Witness ==
    /\ lastCall.op = "get_object_state_instance"
    /\ lastCall.raised = NoError
    /\ \E c \in DOMAIN states :
          /\ lastCall.value = <<states[c]>>
          /\ states[c] # EmptyParams
    /\ DOMAIN states = Pool

\* The sequence s with only its members of S left.
Restrict(s, S) == SelectSeq(s, LAMBDA k : k \in S)

\* C17: after a pass in which no update failed, the classes updated are
\* exactly those the object has instances of, each once, in the order in
\* which get_states_by_dependency_order() lists them.
C17_UpdatedIsRestrictedOrder ==
    (tick.done /\ tick.failed = {}) =>
        /\ Range(tick.updated) = tick.instances
        /\ Injective(tick.updated)
        /\ tick.updated = Restrict(GlobalOrder.out, tick.instances)

C17_Witness ==
    /\ tick.done
    /\ tick.failed = {}
    /\ Len(tick.updated) >= 2
    /\ tick.instances # allStates
    /\ \E k \in tick.instances : required[k] \cap tick.instances # {}

\* C18: a failed update is recorded and raises nothing, and every class the
\* object has an instance of that requires no failed class is updated in the
\* same pass, those after the failed one in the order included.
C18_IndependentStillUpdated ==
    tick.done =>
        /\ tick.raised = NoError
        /\ tick.failed \subseteq Range(tick.updated)
        /\ LET ord == GlobalOrder.out
           IN  \A f \in tick.failed, k \in tick.instances :
                  (/\ Before(ord, f, k)
                   /\ Range(GetDependencies(k)) \cap tick.failed = {})
                      => k \in Range(tick.updated)

C18_Witness ==
    /\ tick.done
    /\ \E f \in tick.failed, k \in Range(tick.updated) :
          /\ Before(tick.updated, f, k)
          /\ f \notin required[k]
          /\ \E j \in required[k] \cap tick.instances : f \in required[j]

\* C19: a class that requires a class whose update failed in the pass is not
\* updated in that pass.
C19_DependentSkipped ==
    tick.done =>
        \A f \in tick.failed, k \in tick.instances :
            f \in Range(GetDependencies(k)) => k \notin Range(tick.updated)

C19_Witness ==
    /\ tick.done
    /\ \E f \in tick.failed, k \in tick.instances :
          /\ f \in required[k]
          /\ k \notin Range(tick.updated)
          /\ k \notin tick.failed

\* C20: whatever abilities an object is given, none included, the resolved
\* kinds hold every default state, and a default state that the table lists
\* for none of the given abilities has empty parameters.
C20_DefaultsAlwaysResolved ==
    (resolveDone /\ resolveErr = NoError) =>
        /\ DEFAULT_STATE_SET \subseteq DOMAIN resolved
        /\ \A k \in DEFAULT_STATE_SET :
              (k \notin UNION {Range(ABILITY_TO_STATE_MAPPING[a]) :
                     a \in AbilityNames(abilities) \cap DOMAIN ABILITY_TO_STATE_MAPPING})
                  => resolved[k] = EmptyParams

C20_Witness ==
    /\ resolveDone
    /\ resolveErr = NoError
    /\ abilities = <<>>
    /\ DOMAIN resolved = DEFAULT_STATE_SET
    /\ \A k \in DEFAULT_STATE_SET : resolved[k] = EmptyParams

\* The kinds that the ability table lists for an ability.
KindsOfAbility(a) ==
    IF a \in DOMAIN ABILITY_TO_STATE_MAPPING
    THEN Range(ABILITY_TO_STATE_MAPPING[a]) ELSE {}

\* C21: when two of the given abilities map to one kind, resolving succeeds
\* and the kind, which the result holds once, has the parameters of the last
\* given ability that maps to it.
C21_LastWriterWins ==
    resolveDone =>
        \A i, j \in DOMAIN abilities :
            (i < j /\ KindsOfAbility(abilities[i][1]) \cap KindsOfAbility(abilities[j][1]) # {})
            => /\ resolveErr = NoError
               /\ \A k \in KindsOfAbility(abilities[i][1]) \cap KindsOfAbility(abilities[j][1]) :
                     /\ k \in DOMAIN resolved
                     /\ (\A l \in DOMAIN abilities :
                             l > j => k \notin KindsOfAbility(abilities[l][1]))
                           => resolved[k] = abilities[j][2]

C21_Witness ==
    /\ resolveDone
    /\ abilities = <<(<<"coldSource", EmptyParams>>), (<<"heatSource", "{'p': 1}">>)>>
    /\ resolved["HeatSourceOrSink"] = "{'p': 1}"

\* No class of the catalog declares a dependency on k.
NoDependent(k) == \A j \in allStates \cap Pool : k \notin required[j] \cup optional[j]

\* C22 as claimed: with an acyclic graph the order is the one obtained by
\* taking, among the kinds whose dependencies are all out, the kind of the
\* smallest name.
C22_LexicalTieBreak ==
    (OrderComputed /\ ~HasCycle) =>
        order = StatesByDependencyOrderLexical(hashOrder).out

\* C22 amended: ties go by the order in which the process iterates the set,
\* not by name: of two catalog kinds that no kind depends on, the one
\* iterated earlier stands later in the order.
C22_IterationTieBreak ==
    (OrderComputed /\ orderErr = NoError) =>
        \A a, b \in allStates :
            (NoDependent(a) /\ NoDependent(b) /\ Before(hashOrder, a, b))
                => Before(order, b, a)

C22_Witness ==
    /\ OrderComputed
    /\ ~HasCycle
    /\ \E a, b \in allStates :
          /\ NoDependent(a) /\ NoDependent(b)
          /\ NameRank(a) < NameRank(b)
          /\ Before(order, b, a)
          /\ required[b] \cup optional[b] # {}

\* C23 as claimed: a failed call reports kind names, and they lie on a cycle
\* of the dependency graph.
C23_ReportedCycleGenuine ==
    (OrderComputed /\ orderErr # NoError) =>
        /\ orderErr.names # {}
        /\ \A k \in orderErr.names : OnCycle(k)

\* C23 amended: a failed call reports no kind name at all and returns no
\* order, although some kinds of the catalog do lie on a cycle of
\* dependency declarations then.
C23_FailureReportsNoName ==
    (OrderComputed /\ orderErr # NoError) =>
        /\ orderErr.names = {}
        /\ order = <<>>
        /\ \E k \in allStates : OnCycle(k)

C23_Witness ==
    /\ OrderComputed
    /\ orderErr # NoError
    /\ orderErr.names = {}
    /\ \E a, b \in allStates :
          /\ a # b
          /\ b \in required[a] \cup optional[a]
          /\ a \in optional[b]
    /\ \E c \in allStates : ~OnCycle(c)

\* The edges of a graph, as pairs <<tail, head>>.
EdgesOf(G) == {e \in Range(G.nodes) \X Range(G.nodes) : Member(G.adj[e[1]], e[2])}

\* C24 as claimed: the edges of the graph are the pairs <<d, k>>, from a
\* dependency d to the catalog kind k that declares it.
C24_EdgesPrerequisiteToDependent ==
    phase = "frozen" =>
        EdgesOf(GetStateDependencyGraph(hashOrder)) = {<<e[2], e[1]>> : e \in DepEdges}

\* C24 amended: the edges of the graph are the pairs <<k, d>>, from a catalog
\* kind k to a dependency d it declares, one edge for a pair even when d is
\* declared both required and optional, and a call that builds the graph
\* leaves the catalog and the declarations as they were.
C24_EdgesDependentToPrerequisite ==
    [][GetStatesByDependencyOrder =>
          LET G == GetStateDependencyGraph(hashOrder)
          IN  /\ EdgesOf(G) = DepEdges
              /\ \A n \in Range(G.nodes) : Injective(G.adj[n])
              /\ Injective(G.nodes)
              /\ UNCHANGED <<allStates, required, optional, hashOrder>>]_vars

C24_Witness ==
    /\ OrderComputed
    /\ \E k \in allStates, d \in Pool :
          /\ d \in required[k] \cap optional[k]
          /\ <<k, d>> \in EdgesOf(GetStateDependencyGraph(hashOrder))
          /\ <<d, k>> \notin EdgesOf(GetStateDependencyGraph(hashOrder))

\* C25: a class the object has an instance of, one of whose optional
\* dependencies the object has no instance of, is updated in the pass, the
\* pass raises nothing, and the class is updated after each of its optional
\* dependencies that the object has an instance of.
C25_MissingOptionalStillUpdated ==
    tick.done =>
        \A k \in tick.instances :
            (/\ Range(GetOptionalDependencies(k)) \ tick.instances # {}
             /\ Range(GetDependencies(k)) \cap tick.failed = {})
            => /\ tick.raised = NoError
               /\ k \in Range(tick.updated)
               /\ \A d \in Range(GetOptionalDependencies(k)) \cap tick.instances :
                     Before(tick.updated, d, k)

C25_Witness ==
    /\ tick.done
    /\ \E k \in Range(tick.updated) :
          /\ optional[k] \ tick.instances # {}
          /\ \E d \in optional[k] \cap tick.instances : Before(tick.updated, d, k)

\* What a computation in progress has left to do: the nodes not yet emitted
\* by the sort, or the kinds not yet in the closure, and one for its end.
RunMeasure ==
    (IF run.done THEN 0 ELSE 1)
    + (IF run.op = "sort" THEN Cardinality(Range(run.nodes) \ Range(run.out))
       ELSE Cardinality((Pool \cup DOMAIN run.map) \ DOMAIN run.map))

C27_OrderExactlyCatalog ==
    (OrderComputed /\ orderErr = NoError) =>
        /\ Injective(order)
        /\ allStates \subseteq Range(order)
        /\ Range(order) \subseteq allStates

\* C28: the default, fire, steam and texture-changing states of the source,
\* and every state its ability table lists, are members of the source's
\* _ALL_STATES; so is every kind resolved from them for an object.
C28_TablesWithinAllStates ==
    phase = "frozen" =>
        /\ GetDefaultStates \subseteq ALL_STATES
        /\ FIRE_STATE_SET \subseteq ALL_STATES
        /\ STEAM_STATE_SET \subseteq ALL_STATES
        /\ GetTextureChangeStates \subseteq ALL_STATES
        /\ \A a \in DOMAIN ABILITY_TO_STATE_MAPPING :
              Range(GetStatesForAbility(a).value) \subseteq ALL_STATES
        /\ resolveDone => NamedKinds(abilities) \subseteq DOMAIN resolved \cap ALL_STATES

C28_Witness ==
    /\ phase = "frozen"
    /\ resolveDone
    /\ AbilityNames(abilities) = {"coldSource", "cookable"}
    /\ {"HeatSourceOrSink", "Cooked"} \subseteq DOMAIN resolved \cap ALL_STATES

\* ------------------------------------------- the keyboard robot controller
\* max() and min() of two integers.
MaxOf(a, b) == IF a >= b THEN a ELSE b
MinOf(a, b) == IF a <= b THEN a ELSE b

\* range(n) shifted by start: start, start + 1, ..., start + n - 1.
IndexRun(start, n) == [i \in 1..n |-> start + i - 1]

\* The sum of a field over the first n controllers of a robot.
RECURSIVE SumCommandDim(_, _)
SumCommandDim(robot, n) ==
    IF n = 0 THEN 0 ELSE SumCommandDim(robot, n - 1) + robot[n].command_dim
RECURSIVE SumDofs(_, _)
SumDofs(robot, n) ==
    IF n = 0 THEN 0 ELSE SumDofs(robot, n - 1) + robot[n].dofs

\* __init__'s loop over robot._controllers: each component's name, the
\* running start_idx, its dof_idx and its command_dim.
ControllerInfo(robot) ==
    [c \in 1..Len(robot) |->
        [name |-> robot[c].name,
         start_idx |-> SumCommandDim(robot, c - 1),
         dofs |-> IndexRun(SumDofs(robot, c - 1), robot[c].dofs),
         command_dim |-> robot[c].command_dim]]

\* generate_ik_keypress_mapping(controller_info).
GenerateIkKeypressMapping(info) ==
    ("UP" :> [idx |-> info.start_idx + 0, val |-> 5])
    @@ ("DOWN" :> [idx |-> info.start_idx + 0, val |-> -5])
    @@ ("RIGHT" :> [idx |-> info.start_idx + 1, val |-> -5])
    @@ ("LEFT" :> [idx |-> info.start_idx + 1, val |-> 5])
    @@ ("P" :> [idx |-> info.start_idx + 2, val |-> 5])
    @@ ("SEMICOLON" :> [idx |-> info.start_idx + 2, val |-> -5])
    @@ ("N" :> [idx |-> info.start_idx + 3, val |-> 5])
    @@ ("B" :> [idx |-> info.start_idx + 3, val |-> -5])
    @@ ("O" :> [idx |-> info.start_idx + 4, val |-> 5])
    @@ ("U" :> [idx |-> info.start_idx + 4, val |-> -5])
    @@ ("V" :> [idx |-> info.start_idx + 5, val |-> 5])
    @@ ("C" :> [idx |-> info.start_idx + 5, val |-> -5])

\* The keys populate_keypress_mapping() maps for a differential drive.
DifferentialDriveMapping(info) ==
    ("I" :> [idx |-> info.start_idx + 0, val |-> 4])
    @@ ("K" :> [idx |-> info.start_idx + 0, val |-> -4])
    @@ ("L" :> [idx |-> info.start_idx + 1, val |-> -2])
    @@ ("J" :> [idx |-> info.start_idx + 1, val |-> 2])

\* The bracket keys, mapped for every robot with no index.
JointDirectionMapping ==
    ("RIGHT_BRACKET" :> [idx |-> NoneIdx, val |-> 1])
    @@ ("LEFT_BRACKET" :> [idx |-> NoneIdx, val |-> -1])

\* The loop of populate_keypress_mapping() from component c on.
RECURSIVE PopulateLoop(_, _)
PopulateLoop(self, c) ==
    IF c > Len(self.controller_info) THEN self
    ELSE
        LET info == self.controller_info[c]
            joints == [self EXCEPT
                         !.joint_command_idx =
                             @ \o IndexRun(info.start_idx, info.command_dim),
                         !.joint_control_idx = @ \o info.dofs]
            next ==
                CASE info.name = "JointController" -> joints
                  [] info.name = "DifferentialDriveController" ->
                         [self EXCEPT !.keypress_mapping =
                                          DifferentialDriveMapping(info) @@ @]
                  [] info.name = "InverseKinematicsController" ->
                         [self EXCEPT
                            !.ik_arms = Append(@, c),
                            !.keypress_mapping =
                                GenerateIkKeypressMapping(info) @@ @]
                  [] info.name = "MultiFingerGripperController" ->
                         IF info.command_dim > 1 THEN joints
                         ELSE [self EXCEPT
                                 !.keypress_mapping =
                                     ("T" :> [idx |-> info.start_idx,
                                              val |-> 10]) @@ @,
                                 !.gripper_direction = (c :> 10) @@ @,
                                 !.persistent_gripper_action = (c :> 10) @@ @,
                                 !.binary_grippers = Append(@, c)]
                  [] info.name = "NullJointController" ->
                         [self EXCEPT !.keypress_mapping =
                                          ("T" :> [idx |-> NoneIdx,
                                                   val |-> NoneVal]) @@ @]
        IN  PopulateLoop(next, c + 1)

\* populate_keypress_mapping(): the tables are emptied, the bracket keys are
\* mapped, and the loop runs over controller_info.
PopulateKeypressMapping(self) ==
    PopulateLoop([self EXCEPT
                    !.keypress_mapping = JointDirectionMapping,
                    !.joint_command_idx = <<>>,
                    !.joint_control_idx = <<>>,
                    !.gripper_direction = [c \in {} |-> 0],
                    !.persistent_gripper_action = [c \in {} |-> 0]], 1)

\* KeyboardRobotController(robot).
NewKeyboardRobotController(robot) ==
    /\ ~teleop.built
    /\ teleop' = PopulateKeypressMapping(
                     [NoTeleop EXCEPT
                        !.built = TRUE,
                        !.action_dim = SumCommandDim(robot, Len(robot)),
                        !.controller_info = ControllerInfo(robot)])
    /\ UNCHANGED <<phase, loadErr, catalogVars, hashOrder, orderVars,
                   textureVars, objectVars, lastCall, fluidSource, tick, run>>

\* keyboard_event_handler(event): the selection keys 1 to 6 move an index
\* within its list, R shows the sensors, any other key becomes the active
\* action; a KEY_PRESS of T asks for a toggle; a release clears the action.
KeyboardEventHandler(type, input) ==
    /\ teleop.built
    /\ LET self == teleop
           special ==
               IF input \in {"KEY_1", "KEY_2"} /\ Len(self.joint_control_idx) > 1
               THEN [self EXCEPT !.active_joint_command_idx_idx =
                        IF input = "KEY_1" THEN MaxOf(0, @ - 1)
                        ELSE MinOf(Len(self.joint_control_idx) - 1, @ + 1)]
               ELSE IF input \in {"KEY_3", "KEY_4"} /\ Len(self.ik_arms) > 1
               THEN LET idx == IF input = "KEY_3"
                               THEN MaxOf(0, self.active_arm_idx - 1)
                               ELSE MinOf(Len(self.ik_arms) - 1,
                                          self.active_arm_idx + 1)
                        new_arm == self.ik_arms[idx + 1]
                    IN  [self EXCEPT
                           !.active_arm_idx = idx,
                           !.keypress_mapping =
                               GenerateIkKeypressMapping(
                                   self.controller_info[new_arm]) @@ @]
               ELSE IF input \in {"KEY_5", "KEY_6"} /\ Len(self.binary_grippers) > 1
               THEN [self EXCEPT !.active_gripper_idx =
                        IF input = "KEY_5" THEN MaxOf(0, @ - 1)
                        ELSE MinOf(Len(self.binary_grippers) - 1, @ + 1)]
               ELSE IF input = "R" THEN self
               ELSE [self EXCEPT !.active_action =
                        IF input \in DOMAIN self.keypress_mapping
                        THEN <<self.keypress_mapping[input]>> ELSE NoAction]
           pressed ==
               IF type = "KEY_PRESS" /\ input = "T"
               THEN [special EXCEPT !.toggling_gripper = TRUE,
                                    !.t_presses = MinOf(MaxPresses, @ + 1)]
               ELSE special
       IN  teleop' = IF type \in {"KEY_PRESS", "KEY_REPEAT"} THEN pressed
                     ELSE [self EXCEPT !.active_action = NoAction]
    /\ UNCHANGED <<phase, loadErr, catalogVars, hashOrder, orderVars,
                   textureVars, objectVars, lastCall, fluidSource, tick, run>>

\* The loop of get_teleop_action() over binary_grippers from position i
\* (counted from 0) on: the active gripper is toggled when a toggle is
\* pending, and every gripper's persistent action goes into the action.
RECURSIVE GripperLoop(_, _)
GripperLoop(self, i) ==
    IF i >= Len(self.binary_grippers) THEN self
    ELSE
        LET binary_gripper == self.binary_grippers[i + 1]
            direction == -1 * self.gripper_direction[binary_gripper]
            toggled ==
                IF self.toggling_gripper /\ i = self.active_gripper_idx
                THEN [self EXCEPT
                        !.gripper_direction[binary_gripper] = direction,
                        !.persistent_gripper_action[binary_gripper] =
                            (self.keypress_mapping["T"].val * direction) \div 10,
                        !.toggling_gripper = FALSE]
                ELSE self
            start_idx == self.controller_info[binary_gripper].start_idx
        IN  GripperLoop(
                [toggled EXCEPT !.action[start_idx] =
                                    toggled.persistent_gripper_action[binary_gripper]],
                i + 1)

\* get_teleop_action(): the active action is written into a zero vector, a
\* bracket key taking its index from joint_command_idx; then the binary
\* grippers are handled.  An index outside its list raises IndexError and
\* leaves the rest of the call undone.
GetTeleopAction ==
    /\ teleop.built
    /\ LET self == teleop
           zeros == [i \in 0..(self.action_dim - 1) |-> 0]
           has == /\ self.active_action # NoAction
                  /\ self.active_action[1].val # NoneVal
           inferred == has /\ self.active_action[1].idx = NoneIdx
           listIndexOutOfRange ==
               /\ inferred
               /\ self.active_joint_command_idx_idx >= Len(self.joint_command_idx)
           idx == IF inferred
                  THEN self.joint_command_idx[self.active_joint_command_idx_idx + 1]
                  ELSE self.active_action[1].idx
           arrayIndexOutOfRange ==
               has /\ ~listIndexOutOfRange /\ idx \notin DOMAIN zeros
           keyed == [self EXCEPT
                       !.raised = NoError,
                       !.t_presses = 0,
                       !.action = IF has THEN [zeros EXCEPT ![idx] =
                                                  self.active_action[1].val]
                                  ELSE zeros]
       IN  teleop' =
               IF listIndexOutOfRange \/ arrayIndexOutOfRange
               THEN [self EXCEPT
                       !.raised = [type |-> "IndexError", names |-> {}],
                       !.t_presses = 0,
                       !.action = <<>>]
               ELSE IF /\ Len(self.binary_grippers) > 0
                       /\ self.keypress_mapping["T"].val # NoneVal
               THEN GripperLoop(keyed, 0)
               ELSE keyed
    /\ UNCHANGED <<phase, loadErr, catalogVars, hashOrder, orderVars,
                   textureVars, objectVars, lastCall, fluidSource, tick, run>>

\* A robot teleoperated from the keyboard.
NextKeyboard ==
    \/ \E robot \in RobotPool : NewKeyboardRobotController(robot)
    \/ \E type \in EventTypes, input \in KeyPool : KeyboardEventHandler(type, input)
    \/ GetTeleopAction

SpecKeyboard == Init /\ [][NextKeyboard]_vars

\* The active action is a bracket key's: a value with no index of its own.
BracketActive ==
    /\ teleop.active_action # NoAction
    /\ teleop.active_action[1].val # NoneVal
    /\ teleop.active_action[1].idx = NoneIdx

\* C29: after any sequence of keyboard events and for any controller
\* configuration, get_teleop_action() never indexes out of range:
\* active_joint_command_idx_idx is a valid index of joint_command_idx
\* whenever a bracket key is the active action, and active_arm_idx and
\* active_gripper_idx stay within the bounds of ik_arms and binary_grippers.
\* The code maps the bracket keys for every robot, also for one none of
\* whose controllers fills joint_command_idx.
C29_IndicesInRange ==
    teleop.built =>
        /\ teleop.raised.type # "IndexError"
        /\ BracketActive =>
               teleop.active_joint_command_idx_idx
                   \in 0..(Len(teleop.joint_command_idx) - 1)
        /\ Len(teleop.ik_arms) > 0 =>
               teleop.active_arm_idx \in 0..(Len(teleop.ik_arms) - 1)
        /\ Len(teleop.binary_grippers) > 0 =>
               teleop.active_gripper_idx \in 0..(Len(teleop.binary_grippers) - 1)

\* A step that is a call of get_teleop_action() following at least one
\* KEY_PRESS of T since the call before it.
CallAfterPress == teleop.t_presses > 0 /\ teleop'.t_presses = 0

\* C30: for a robot with a binary gripper, a gripper's persistent action
\* changes only in a call of get_teleop_action() that follows a KEY_PRESS of
\* T since the previous call, and only for the gripper active at that call,
\* whose direction is then negated once; after that call no toggle is
\* pending.  The code leaves the toggle pending when the call raises or
\* when a NullJointController has remapped T.
C30_ToggleOncePerCall ==
    [][(teleop.built /\ Len(teleop.binary_grippers) > 0) =>
        /\ \A g \in Range(teleop.binary_grippers) :
               teleop'.persistent_gripper_action[g]
                       # teleop.persistent_gripper_action[g] =>
                   /\ CallAfterPress
                   /\ g = teleop.binary_grippers[teleop.active_gripper_idx + 1]
                   /\ teleop'.gripper_direction[g] = -1 * teleop.gripper_direction[g]
                   /\ teleop'.persistent_gripper_action[g]
                          = -1 * teleop.persistent_gripper_action[g]
        /\ CallAfterPress => ~teleop'.toggling_gripper]_vars

=============================================================================
